---- MODULE Spec2Model ----
(***************************************************************************)
(* Model of src/data/parser.py: GPCRFastaParser.                           *)
(*                                                                         *)
(* Text is modelled as sequences of one-character strings; a FASTA source  *)
(* is a sequence of lines (each without its line terminator).              *)
(* A gap percentage is held in hundredths of a percent (an integer         *)
(* 0..10000), which is what round(x, 2) keeps of the float.                *)
(***************************************************************************)
EXTENDS Integers, Sequences, FiniteSets, TLC

VARIABLES
    source,     \* the lines of the file at fasta_path
    strict,     \* which Bio.SeqIO reader the build has (see SeqIO_parse)
    pc,         \* "init" | "parsed" | "failed": position of the caller of parse()
    df,         \* the rows of the DataFrame parse() returned
    error,      \* the exception parse() raised, or "none"
    call,       \* the last call made on the parser object after parse()
    result,     \* what that call returned or raised
    header,     \* the argument of _extract_uniref_id
    extracted   \* what _extract_uniref_id did with header

vars == <<source, strict, pc, df, error, call, result, header, extracted>>

\* ------------------------------------------------------------------ bounds
MaxLines == 4
MaxPieces == 4

\* ---------------------------------------------------------- character sets
Digits == {"0", "1", "2", "3", "4", "5", "6", "7", "8", "9"}

UpperLetters ==
    {"A", "B", "C", "D", "E", "F", "G", "H", "I", "J", "K", "L", "M",
     "N", "O", "P", "Q", "R", "S", "T", "U", "V", "W", "X", "Y", "Z"}

\* the class [A-Z0-9] of the pattern
IdChars == UpperLetters \cup Digits

\* what str.split() and str.rstrip() treat as white space
Whitespace == {" ", "\t", "\r", "\n"}

\* the literal text the pattern starts with
UniRefLiteral == <<"U", "n", "i", "R", "e", "f">>

\* ------------------------------------------------------- string primitives
\* str.replace(ch, ''): every occurrence of ch removed
RECURSIVE str_replace(_, _)
str_replace(s, ch) ==
    IF s = <<>> THEN <<>>
    ELSE IF Head(s) = ch THEN str_replace(Tail(s), ch)
    ELSE <<Head(s)>> \o str_replace(Tail(s), ch)

\* str.rstrip(): trailing white space removed
RECURSIVE str_rstrip(_)
str_rstrip(s) ==
    IF s = <<>> THEN <<>>
    ELSE IF s[Len(s)] \in Whitespace THEN str_rstrip(SubSeq(s, 1, Len(s) - 1))
    ELSE s

\* str.count(ch)
RECURSIVE str_count(_, _)
str_count(s, ch) ==
    IF s = <<>> THEN 0
    ELSE (IF Head(s) = ch THEN 1 ELSE 0) + str_count(Tail(s), ch)

\* index of the last character of the longest run of characters of class cls
\* that starts at index i (i - 1 when the run is empty): a greedy cls*
RECURSIVE RunEnd(_, _, _)
RunEnd(s, i, cls) ==
    IF i <= Len(s) /\ s[i] \in cls THEN RunEnd(s, i + 1, cls) ELSE i - 1

\* index of the first character at or after i that is not white space
\* (Len(s) + 1 when there is none)
RECURSIVE SkipSpace(_, _)
SkipSpace(s, i) ==
    IF i <= Len(s) /\ s[i] \in Whitespace THEN SkipSpace(s, i + 1) ELSE i

\* str.split(): the list of white-space-delimited words, from index i on
RECURSIVE str_split_from(_, _)
str_split_from(s, i) ==
    LET b == SkipSpace(s, i)
        e == RunEnd(s, b, {s[k] : k \in 1..Len(s)} \ Whitespace)
    IN  IF b > Len(s) THEN <<>>
        ELSE <<SubSeq(s, b, e)>> \o str_split_from(s, e + 1)

str_split(s) == str_split_from(s, 1)

\* ------------------------------------------- re.search(r'UniRef\d+_([A-Z0-9]+)')
\* The regular expression tried at start index s, with \d+ having consumed
\* the digits up to index e: "_" and one character of [A-Z0-9] must follow;
\* otherwise \d+ gives one digit back and the rest is tried again.
\* Returns group(1), or <<>> when the attempt at s fails.
RECURSIVE MatchDigitsUpTo(_, _, _)
MatchDigitsUpTo(h, s, e) ==
    IF e < s + Len(UniRefLiteral) THEN <<>>
    ELSE IF e + 2 <= Len(h) /\ h[e + 1] = "_" /\ h[e + 2] \in IdChars
         THEN SubSeq(h, e + 2, RunEnd(h, e + 2, IdChars))
         ELSE MatchDigitsUpTo(h, s, e - 1)

\* the regular expression tried at start index s
MatchAt(h, s) ==
    IF s + Len(UniRefLiteral) - 1 > Len(h) THEN <<>>
    ELSE IF SubSeq(h, s, s + Len(UniRefLiteral) - 1) # UniRefLiteral THEN <<>>
    ELSE MatchDigitsUpTo(h, s, RunEnd(h, s + Len(UniRefLiteral), Digits))

\* re.search: the first start index, from the left, at which the pattern
\* matches; returns group(1), or <<>> for None (group(1) is never empty)
RECURSIVE re_search_from(_, _)
re_search_from(h, s) ==
    IF s > Len(h) THEN <<>>
    ELSE IF MatchAt(h, s) # <<>> THEN MatchAt(h, s)
    ELSE re_search_from(h, s + 1)

\* re.match in place of re.search: the pattern anchored at the start
re_match_anchored(h) == MatchAt(h, 1)

re_search(h) == re_search_from(h, 1)

\* ------------------------------------------------------ _extract_uniref_id
Returned(rule, value) == [err |-> "none", rule |-> rule, value |-> value]

Raised(exc) == [err |-> exc, rule |-> "none", value |-> <<>>]

extract_uniref_id(h) ==
    LET m == re_search(h)
        words == str_split(h)
    IN  IF m # <<>> THEN Returned("pattern", m)
        ELSE IF words = <<>> THEN Raised("IndexError")
        ELSE Returned("fallback", str_replace(words[1], ">"))

\* --------------------------------------------- SeqIO.parse(path, "fasta")
\* The reader is Biopython's, called at parser.py line 38. A record starts at
\* a line whose first character is ">"; its title is the rest of that line,
\* right-stripped; its sequence is the following lines up to the next such
\* line, each right-stripped, joined, with " " and "\r" removed.
IsMarker(line) == Len(line) > 0 /\ line[1] = ">"

\* index of the first marker line at or after i (0 when there is none)
RECURSIVE FirstMarkerFrom(_, _)
FirstMarkerFrom(lines, i) ==
    IF i > Len(lines) THEN 0
    ELSE IF IsMarker(lines[i]) THEN i
    ELSE FirstMarkerFrom(lines, i + 1)

\* the (title, sequence) pairs from line i on, title and body being those of
\* the record that is open
RECURSIVE ReadRecords(_, _, _, _)
ReadRecords(lines, i, title, body) ==
    LET rec == [title |-> title,
                seq |-> str_replace(str_replace(body, " "), "\r")]
    IN  IF i > Len(lines) THEN <<rec>>
        ELSE IF IsMarker(lines[i])
             THEN <<rec>> \o ReadRecords(lines, i + 1, str_rstrip(Tail(lines[i])), <<>>)
             ELSE ReadRecords(lines, i + 1, title, body \o str_rstrip(lines[i]))

SimpleFastaParser(lines) ==
    LET f == FirstMarkerFrom(lines, 1)
    IN  IF f = 0 THEN <<>>
        ELSE ReadRecords(lines, f + 1, str_rstrip(Tail(lines[f])), <<>>)

\* SeqRecord: id is the first word of the title ("" when it has none),
\* description the whole title
SeqRecord(raw) ==
    LET words == str_split(raw.title)
    IN  [id |-> IF words = <<>> THEN <<>> ELSE words[1],
         description |-> raw.title,
         seq |-> raw.seq]

\* The lines before the first marker line are skipped by Biopython up to 1.85
\* (since 1.85 with a deprecation warning announcing a ValueError); a build
\* may have either reader, so the model keeps both: isStrict is the reader
\* that raises when the first line of the file is not a marker line.
SeqIO_parse(lines, isStrict) ==
    IF isStrict /\ lines # <<>> /\ ~IsMarker(lines[1])
    THEN [err |-> "ValueError", records |-> <<>>]
    ELSE [err |-> "none",
          records |-> [k \in 1..Len(SimpleFastaParser(lines)) |->
                          SeqRecord(SimpleFastaParser(lines)[k])]]

\* ------------------------------------------------------------------- parse
\* n / d rounded to the nearest integer, ties to even: round() of a float
\* whose value is exact at a tie
RoundHalfEven(n, d) ==
    LET q == n \div d
        r == n % d
    IN  IF 2 * r < d THEN q
        ELSE IF 2 * r > d THEN q + 1
        ELSE IF q % 2 = 0 THEN q ELSE q + 1

\* the wrong ratio: the share of residues instead of the share of gaps
gap_percentage_of_residues(gap_count, length) ==
    IF length > 0 THEN RoundHalfEven(10000 * (length - gap_count), length) ELSE 0

\* round((gap_count / length) * 100 if length > 0 else 0, 2), in hundredths
gap_percentage(gap_count, length) ==
    IF length > 0 THEN RoundHalfEven(10000 * gap_count, length) ELSE 0

\* the dictionary appended for one record (lines 40-58), given its uniref_id
Row(record, uniref_id) ==
    LET sequence == record.seq
        length == Len(sequence)
        gap_count == str_count(sequence, "-")
    IN  [id |-> record.id,
         uniref_id |-> uniref_id,
         full_header |-> record.description,
         sequence |-> sequence,
         length |-> length,
         gap_count |-> gap_count,
         gap_percentage |-> gap_percentage(gap_count, length)]

\* the for loop of lines 38-58 from record k on, rows being sequences_data:
\* an exception of _extract_uniref_id leaves the loop and parse()
RECURSIVE ParseLoop(_, _, _)
ParseLoop(records, k, rows) ==
    IF k > Len(records) THEN [err |-> "none", rows |-> rows]
    ELSE LET x == extract_uniref_id(records[k].description)
         IN  IF x.err # "none" THEN [err |-> x.err, rows |-> <<>>]
             ELSE ParseLoop(records, k + 1, Append(rows, Row(records[k], x.value)))

\* parse(): the reader, the loop, then the summary printed from the frame.
\* pd.DataFrame([]) has no columns, so df['length'] at line 62 raises KeyError
\* when no record was read.
parse(lines, isStrict) ==
    LET read == SeqIO_parse(lines, isStrict)
        loop == ParseLoop(read.records, 1, <<>>)
    IN  IF read.err # "none" THEN [err |-> read.err, rows |-> <<>>]
        ELSE IF loop.err # "none" THEN loop
        ELSE IF loop.rows = <<>> THEN [err |-> "KeyError", rows |-> <<>>]
        ELSE loop

\* ------------------------------------------------------ get_sequence_by_id
\* df[df['uniref_id'] == uniref_id]: the rows that match, in the frame's order
RowsWithId(rows, uniref_id) ==
    LET Matches(r) == r.uniref_id = uniref_id
    IN  SelectSeq(rows, Matches)

\* a row narrowed to some of its columns; row['sequence'] is the row narrowed
\* to the one column "sequence"
Project(row, columns) == [c \in columns |-> row[c]]

\* iloc[-1] in place of iloc[0]: the last matching row
get_sequence_by_id_last(rows, uniref_id) ==
    LET matching == RowsWithId(rows, uniref_id)
    IN  IF Len(matching) = 0 THEN [err |-> "ValueError", value |-> <<>>]
        ELSE [err |-> "none",
              value |-> Project(matching[Len(matching)], {"sequence"})]

get_sequence_by_id(rows, uniref_id) ==
    LET matching == RowsWithId(rows, uniref_id)
    IN  IF Len(matching) = 0 THEN [err |-> "ValueError", value |-> <<>>]
        ELSE [err |-> "none", value |-> Project(matching[1], {"sequence"})]

\* -------------------------------------------------------------- remove_gaps
\* replace('-', '', 1) in place of replace('-', ''): only the first gap goes
RECURSIVE remove_first_gap(_)
remove_first_gap(sequence) ==
    IF sequence = <<>> THEN <<>>
    ELSE IF Head(sequence) = "-" THEN Tail(sequence)
    ELSE <<Head(sequence)>> \o remove_first_gap(Tail(sequence))

remove_gaps(sequence) == str_replace(sequence, "-")

\* ----------------------------------------------------------- get_statistics
\* a pandas number: a ratio num/den, or NaN
Number(num, den) == [nan |-> FALSE, num |-> num, den |-> den]

NaN == [nan |-> TRUE, num |-> 0, den |-> 1]

RECURSIVE ColumnSum(_, _)
ColumnSum(rows, column) ==
    IF rows = <<>> THEN 0 ELSE Head(rows)[column] + ColumnSum(Tail(rows), column)

ColumnValues(rows, column) == {rows[k][column] : k \in 1..Len(rows)}

\* Series.mean(): NaN on an empty column
ColumnMean(rows, column) ==
    IF rows = <<>> THEN NaN ELSE Number(ColumnSum(rows, column), Len(rows))

\* Series.min(): NaN on an empty column
ColumnMin(rows, column) ==
    IF rows = <<>> THEN NaN
    ELSE Number(CHOOSE v \in ColumnValues(rows, column) :
                    \A w \in ColumnValues(rows, column) : v <= w, 1)

\* Series.max(): NaN on an empty column
ColumnMax(rows, column) ==
    IF rows = <<>> THEN NaN
    ELSE Number(CHOOSE v \in ColumnValues(rows, column) :
                    \A w \in ColumnValues(rows, column) : v >= w, 1)

\* no test of len(df): the dictionary is built whatever the frame holds
get_statistics(rows) ==
    [err |-> "none",
     value |-> [total_sequences |-> Len(rows),
                avg_length |-> ColumnMean(rows, "length"),
                min_length |-> ColumnMin(rows, "length"),
                max_length |-> ColumnMax(rows, "length"),
                avg_gap_percentage |-> ColumnMean(rows, "gap_percentage"),
                sequences_with_gaps |->
                    Cardinality({k \in 1..Len(rows) : rows[k].gap_count > 0})]]

\* ------------------------------------------------------------------ inputs
\* the lines a source is made of: headers with the UniRef pattern at the
\* start and further in (the same identifier twice), a header without it,
\* a bare marker, bodies with and without gaps and blanks, an empty line
LineSet ==
    { <<">", "U", "n", "i", "R", "e", "f", "1", "_", "U">>,
      <<">", "x", " ", "U", "n", "i", "R", "e", "f", "1", "_", "U">>,
      <<">", "b", ">", "c", " ", "d">>,
      <<">">>,
      <<"M", "-", "K">>,
      <<"-", "-">>,
      <<"G", " ">>,
      <<>> }

Sources == UNION {[1..n -> LineSet] : n \in 0..MaxLines}

\* the pieces a header passed to _extract_uniref_id is made of
Pieces ==
    { UniRefLiteral, UniRefLiteral \o <<"2", "_">>,
      <<"1">>, <<"_">>, <<"U">>, <<"a">>, <<" ">>, <<">">> }

RECURSIVE Concat(_)
Concat(parts) == IF parts = <<>> THEN <<>> ELSE Head(parts) \o Concat(Tail(parts))

Headers == {Concat(p) : p \in UNION {[1..n -> Pieces] : n \in 0..MaxPieces}}

\* an identifier no row carries
AbsentId == <<"Z", "Z">>

\* the frames a caller holds after parse(): the frame returned, and its empty
\* selection (df[mask] with no row selected: the columns without rows)
Frames(rows) == {rows, <<>>}

LookupIds(rows) == {rows[k].uniref_id : k \in 1..Len(rows)} \cup {AbsentId}

NoCall == [op |-> "none", df |-> <<>>, arg |-> <<>>, row |-> 0]

NoResult == [err |-> "none", value |-> <<>>]

Pending == [err |-> "pending", rule |-> "none", value |-> <<>>]

\* ----------------------------------------------------------------- actions
Init ==
    /\ source \in Sources
    /\ strict \in BOOLEAN
    /\ pc = "init"
    /\ df = <<>>
    /\ error = "none"
    /\ call = NoCall
    /\ result = NoResult
    /\ header = <<>>
    /\ extracted = Pending

\* df = parser.parse()
Parse ==
    /\ pc = "init"
    /\ LET r == parse(source, strict)
       IN  /\ pc' = IF r.err = "none" THEN "parsed" ELSE "failed"
           /\ df' = r.rows
           /\ error' = r.err
    /\ UNCHANGED <<source, strict, call, result, header, extracted>>

\* parser.get_statistics(d)
GetStatistics ==
    /\ pc = "parsed"
    /\ \E d \in Frames(df) :
          /\ call' = [op |-> "get_statistics", df |-> d, arg |-> <<>>, row |-> 0]
          /\ result' = get_statistics(d)
    /\ UNCHANGED <<source, strict, pc, df, error, header, extracted>>

\* parser.get_sequence_by_id(d, id)
GetSequenceById ==
    /\ pc = "parsed"
    /\ \E d \in Frames(df), id \in LookupIds(df) :
          /\ call' = [op |-> "get_sequence_by_id", df |-> d, arg |-> id, row |-> 0]
          /\ result' = get_sequence_by_id(d, id)
    /\ UNCHANGED <<source, strict, pc, df, error, header, extracted>>

\* parser.remove_gaps(df.iloc[k]['sequence'])
RemoveGaps ==
    /\ pc = "parsed"
    /\ \E k \in 1..Len(df) :
          /\ call' = [op |-> "remove_gaps", df |-> df, arg |-> df[k].sequence, row |-> k]
          /\ result' = [err |-> "none", value |-> remove_gaps(df[k].sequence)]
    /\ UNCHANGED <<source, strict, pc, df, error, header, extracted>>

Next == Parse \/ GetStatistics \/ GetSequenceById \/ RemoveGaps

Spec == Init /\ [][Next]_vars

\* _extract_uniref_id on its own, over the headers
InitExtract ==
    /\ source = <<>>
    /\ strict = FALSE
    /\ pc = "init"
    /\ df = <<>>
    /\ error = "none"
    /\ call = NoCall
    /\ result = NoResult
    /\ header \in Headers
    /\ extracted = Pending

\* parser._extract_uniref_id(header)
ExtractUnirefId ==
    /\ extracted = Pending
    /\ extracted' = extract_uniref_id(header)
    /\ UNCHANGED <<source, strict, pc, df, error, call, result, header>>

NextExtract == ExtractUnirefId

SpecExtract == InitExtract /\ [][NextExtract]_vars

\* ------------------------------------------------- vocabulary of the claims
\* the indices of the marker lines of a source
MarkerLines(lines) == {i \in 1..Len(lines) : IsMarker(lines[i])}

\* the index of the k-th marker line
KthMarker(lines, k) ==
    CHOOSE i \in MarkerLines(lines) :
        Cardinality({j \in MarkerLines(lines) : j <= i}) = k

\* a line holding nothing but white space
IsBlank(line) == \A i \in 1..Len(line) : line[i] \in Whitespace

\* non-blank text stands before the first marker line
HasLeadingText(lines) ==
    \E i \in 1..Len(lines) :
        /\ ~IsBlank(lines[i])
        /\ \A j \in 1..i : ~IsMarker(lines[j])

\* "UniRef", digits, "_" and a character of [A-Z0-9] stand in h, the literal
\* starting at index s and the underscore being at index u
Occurrence(h, s, u) ==
    /\ s + 5 <= Len(h)
    /\ \A j \in 1..6 : h[s + j - 1] = UniRefLiteral[j]
    /\ u > s + 6
    /\ u < Len(h)
    /\ \A j \in (s + 6)..(u - 1) : h[j] \in Digits
    /\ h[u] = "_"
    /\ h[u + 1] \in IdChars

Occurrences(h) ==
    {o \in (1..Len(h)) \X (1..Len(h)) : Occurrence(h, o[1], o[2])}

Leftmost(h) ==
    CHOOSE o \in Occurrences(h) : \A p \in Occurrences(h) : o[1] <= p[1]

\* v is the longest run of characters of [A-Z0-9] right after index u of h
IsMaximalIdRunAfter(h, u, v) ==
    /\ Len(v) >= 1
    /\ u + Len(v) <= Len(h)
    /\ \A j \in 1..Len(v) : v[j] = h[u + j] /\ v[j] \in IdChars
    /\ (u + Len(v) = Len(h) \/ h[u + Len(v) + 1] \notin IdChars)

\* a word with one leading ">" taken off
WithoutLeadingMarker(w) == IF w # <<>> /\ w[1] = ">" THEN Tail(w) ELSE w

\* the indices of the rows of a frame that carry an identifier
Hits(rows, id) == {k \in 1..Len(rows) : rows[k].uniref_id = id}

Least(S) == CHOOSE x \in S : \A y \in S : x <= y

\* the indices of the characters of a sequence that are not gaps
Residues(sequence) == {i \in 1..Len(sequence) : sequence[i] # "-"}

\* ------------------------------------------------------------------ claims
\* C1: parse() yields exactly one record per marker line of the source, in
\* the order of the marker lines, for every source.
C1_OneRecordPerMarker ==
    pc # "init" =>
        /\ error = "none"
        /\ Len(df) = Cardinality(MarkerLines(source))
        /\ \A k \in 1..Len(df) :
              df[k].full_header = str_rstrip(Tail(source[KthMarker(source, k)]))

\* C2: get_statistics on a frame of zero rows signals an error and returns
\* no statistics record.
C2_EmptyStatisticsSignals ==
    (call.op = "get_statistics" /\ call.df = <<>>) => result.err # "none"

\* C3: parsing a source of blank lines only (or of no line) completes without
\* an error and yields zero records.
C3_NoMarkersYieldsEmpty ==
    (pc # "init" /\ \A i \in 1..Len(source) : IsBlank(source[i])) =>
        (pc = "parsed" /\ error = "none" /\ df = <<>>)

\* C4: parsing a source with non-blank text before its first marker line
\* signals an error and produces no records.
C4_LeadingTextIsParseError ==
    (pc # "init" /\ HasLeadingText(source)) =>
        (pc = "failed" /\ error # "none" /\ df = <<>>)

\* C5: _extract_uniref_id raises for no header and returns a non-empty
\* identifier.
C5_ExtractionTotalNonEmpty ==
    extracted # Pending => (extracted.err = "none" /\ extracted.value # <<>>)

\* C6: when "UniRef", digits, "_" and a character of [A-Z0-9] stand anywhere
\* in the header, the identifier is the longest run of [A-Z0-9] after the
\* underscore of the leftmost such place, and the first-word fallback is not
\* used; the pattern rule is used only then.
C6_PatternAnywhere ==
    extracted # Pending =>
        IF Occurrences(header) # {}
        THEN /\ extracted.err = "none"
             /\ extracted.rule = "pattern"
             /\ IsMaximalIdRunAfter(header, Leftmost(header)[2], extracted.value)
        ELSE extracted.rule # "pattern"

\* C6 witness: the pattern was found at a place that is not the start of the
\* header.
C6_Witness ==
    /\ extracted.rule = "pattern"
    /\ Occurrences(header) # {}
    /\ Leftmost(header)[1] > 1

\* C7: without the pattern in the header, the identifier is the first word of
\* the header less one leading ">", every other character kept.
C7_FallbackStripsLeadingMarkerOnly ==
    (extracted.err = "none" /\ Occurrences(header) = {}) =>
        extracted.value = WithoutLeadingMarker(str_split(header)[1])

\* C8: every row of a parsed frame has length = the number of characters of
\* its sequence, gap_count = the number of "-" in it, 0 <= gap_count <=
\* length, 0 <= gap_percentage <= 100, and gap_percentage = 0 when gap_count
\* = 0 and when length = 0.
C8_RowFields ==
    pc = "parsed" =>
        \A k \in 1..Len(df) :
            LET r == df[k]
            IN  /\ r.length = Len(r.sequence)
                /\ r.gap_count = Len(r.sequence) - Cardinality(Residues(r.sequence))
                /\ 0 <= r.gap_count
                /\ r.gap_count <= r.length
                /\ 0 <= r.gap_percentage
                /\ r.gap_percentage <= 10000
                /\ (r.gap_count = 0 => r.gap_percentage = 0)
                /\ (r.length = 0 => r.gap_percentage = 0)

\* C8 witness: a parsed frame with a row of empty body and a row with some
\* but not only gaps.
C8_Witness ==
    /\ pc = "parsed"
    /\ \E k \in 1..Len(df) : df[k].length = 0
    /\ \E k \in 1..Len(df) : df[k].gap_count > 0 /\ df[k].gap_count < df[k].length

\* C9: remove_gaps of a parsed row's sequence holds no "-", has length
\* length - gap_count, is the row's non-gap characters in their order, and
\* remove_gaps leaves it as it is.
C9_RemoveGaps ==
    call.op = "remove_gaps" =>
        LET r == df[call.row]
            v == result.value
            keep == Residues(r.sequence)
        IN  /\ \A i \in 1..Len(v) : v[i] # "-"
            /\ Len(v) = r.length - r.gap_count
            /\ \A i \in keep :
                  v[Cardinality({j \in keep : j <= i})] = r.sequence[i]
            /\ remove_gaps(v) = v

\* C9 witness: gaps were removed from a sequence with several gaps and
\* residues on both sides of one.
C9_Witness ==
    /\ call.op = "remove_gaps"
    /\ df[call.row].gap_count >= 2
    /\ \E i \in 2..(Len(call.arg) - 1) :
          call.arg[i] = "-" /\ call.arg[i - 1] # "-" /\ call.arg[i + 1] # "-"
    /\ Len(result.value) >= 2

\* C10 as stated: the lookup returns the first row, in file order, that
\* carries the identifier.
C10_LookupReturnsFirstRecord ==
    (call.op = "get_sequence_by_id" /\ Hits(call.df, call.arg) # {}) =>
        /\ result.err = "none"
        /\ result.value = call.df[Least(Hits(call.df, call.arg))]

\* C10 as amended: the lookup returns the sequence column of the first row,
\* in file order, that carries the identifier (also when several rows carry
\* it), raises ValueError exactly when no row carries it, and leaves the
\* frame as it was.
C10_LookupFirstSequence ==
    /\ [](call.op = "get_sequence_by_id" =>
            IF Hits(call.df, call.arg) = {}
            THEN result.err = "ValueError"
            ELSE /\ result.err = "none"
                 /\ result.value =
                       Project(call.df[Least(Hits(call.df, call.arg))], {"sequence"}))
    /\ [][call'.op = "get_sequence_by_id" => df' = df]_vars

\* C10 witness: a lookup of an identifier that rows with different sequences
\* carry.
C10_Witness ==
    /\ call.op = "get_sequence_by_id"
    /\ result.err = "none"
    /\ \E a, b \in Hits(call.df, call.arg) :
          a < b /\ call.df[a].sequence # call.df[b].sequence

====
